---- MODULE Spec2Model ----
(***************************************************************************)
(* jsonml: the Node Factory (index.js) and the reconciler (render.js).     *)
(*                                                                         *)
(* A JsonML value is a tagged record, one tag per JavaScript type the code *)
(* tells apart (typeof, Array.isArray, isNamedNodeMap):                    *)
(*   [type |-> "string", str], [type |-> "number", num],                   *)
(*   [type |-> "boolean", bool], [type |-> "null"], [type |-> "undefined"],*)
(*   [type |-> "array", items]  (items[1] is jsonml[0]),                   *)
(*   [type |-> "map", xmlns, class]  (an attribute object).                *)
(* A live DOM node is a record                                             *)
(*   [id, nodeType, nodeName, namespaceURI, nodeValue, delimiter,          *)
(*    attributes, childNodes]                                              *)
(* where id is the object identity of the node and childNodes the sequence *)
(* of its children, nested.                                                *)
(***************************************************************************)
EXTENDS Integers, Sequences, FiniteSets, TLC

VARIABLES root, prev, jsonml, writes, fault, repeated, calls, pc, stack

vars == <<root, prev, jsonml, writes, fault, repeated, calls, pc, stack>>

\* ------------------------------------------------------------ constants
htmlns == "http://www.w3.org/1999/xhtml"
svgns == "http://www.w3.org/2000/svg"
fragment == "#document-fragment"
comment == "#comment"
text == "#text"

\* JavaScript's undefined, where the code passes or reads a missing value.
Undefined == "undefined"
\* JavaScript's null, as a node reference.
Null == 0

\* ------------------------------------------------------- JsonML values
Str(s) == [type |-> "string", str |-> s]
Num(n) == [type |-> "number", num |-> n]
Bool(b) == [type |-> "boolean", bool |-> b]
NullValue == [type |-> "null"]
UndefinedValue == [type |-> "undefined"]
Arr(items) == [type |-> "array", items |-> items]
Map(xmlns, class) == [type |-> "map", xmlns |-> xmlns, class |-> class]

\* jsonml.length and jsonml[i] (0-based, undefined past the end).
Length(j) == Len(j.items)
At(j, i) == IF i < Len(j.items) THEN j.items[i + 1] ELSE UndefinedValue
IsArray(j) == j.type = "array"
\* jsonml[0] of an array, as the string it is in a well-formed description.
Tag(j) == j.items[1].str

\* String(n) for the numbers of the model.
Digit == <<"0", "1", "2", "3", "4", "5", "6", "7", "8", "9">>
NumberToString(n) == IF n \in 0..9 THEN Digit[n + 1] ELSE "NaN"

\* String.prototype.toLowerCase / toUpperCase on the names of the model.
toLowerCase(s) ==
    CASE s = "DIV" -> "div"
      [] s = "SPAN" -> "span"
      [] s = "SVG" -> "svg"
      [] s = "CIRCLE" -> "circle"
      [] OTHER -> s
toUpperCase(s) ==
    CASE s = "div" -> "DIV"
      [] s = "span" -> "SPAN"
      [] s = "svg" -> "SVG"
      [] s = "circle" -> "CIRCLE"
      [] OTHER -> s

\* ------------------------------------------------------------ index.js
isDocumentFragment(j) == IsArray(j) /\ Tag(j) = fragment
isNamedNodeMap(j) == j.type = "map"
nodeNameOf(j) == IF IsArray(j) THEN Tag(j) ELSE text

nodeValueOf(j) ==
    CASE j.type = "string" -> j.str
      [] j.type = "number" -> NumberToString(j.num)
      [] j.type = "boolean" -> (IF j.bool THEN "true" ELSE "false")
      [] OTHER -> ""

\* ------------------------------------------------------------ live DOM
\* Element.nodeName in an HTML document: the qualified name, upper-cased
\* for an element in the HTML namespace.
ElementNodeName(ns, name) == IF ns = htmlns THEN toUpperCase(name) ELSE name

Element(id, ns, name, attributes, childNodes) ==
    [id |-> id, nodeType |-> "element", nodeName |-> ElementNodeName(ns, name),
     namespaceURI |-> ns, nodeValue |-> "", delimiter |-> FALSE,
     attributes |-> attributes, childNodes |-> childNodes]
\* Text and Comment nodes have no namespaceURI property: reading it gives
\* undefined.
TextNode(id, value) ==
    [id |-> id, nodeType |-> "text", nodeName |-> text,
     namespaceURI |-> Undefined, nodeValue |-> value, delimiter |-> FALSE,
     attributes |-> {}, childNodes |-> <<>>]
CommentNode(id, value) ==
    [id |-> id, nodeType |-> "comment", nodeName |-> comment,
     namespaceURI |-> Undefined, nodeValue |-> value, delimiter |-> FALSE,
     attributes |-> {}, childNodes |-> <<>>]
\* new JsonMLDelimiter(): a Comment with empty data that owns the JsonML
\* symbol as a property.
JsonMLDelimiter(id) ==
    [id |-> id, nodeType |-> "comment", nodeName |-> comment,
     namespaceURI |-> Undefined, nodeValue |-> "", delimiter |-> TRUE,
     attributes |-> {}, childNodes |-> <<>>]
\* instance instanceof Comment && JsonMLSymbol in instance
IsJsonMLDelimiter(node) == node.nodeType = "comment" /\ node.delimiter

\* The attributes createElement sets from an attribute object (the string
\* keys of the model: xmlns and class).
setAttributes(attrs) ==
    (IF attrs.xmlns # Undefined THEN {<<"xmlns", attrs.xmlns>>} ELSE {})
    \cup (IF attrs.class # Undefined THEN {<<"class", attrs.class>>} ELSE {})

\* Every create operator returns [nodes, nextId]: the nodes the returned DOM
\* node contributes when inserted (itself, or its children when it is a
\* DocumentFragment) and the next unused identity.
RECURSIVE createNode(_, _, _)
RECURSIVE createElement(_, _, _)
RECURSIVE createDocumentFragment(_, _, _)
RECURSIVE appendCreated(_, _, _, _)

\* parent.append(node): the nodes of c follow those appended so far.
append(acc, c) == [nodes |-> acc.nodes \o c.nodes, nextId |-> c.nextId]

\* for (; i < jsonml.length;) parent.append(createNode(jsonml[i++], xmlns))
appendCreated(j, i, xmlns, acc) ==
    IF i < Length(j)
    THEN appendCreated(j, i + 1, xmlns,
             append(acc, createNode(At(j, i), xmlns, acc.nextId)))
    ELSE acc

createTextNode(j, nextId) ==
    [nodes |-> <<TextNode(nextId, nodeValueOf(j))>>, nextId |-> nextId + 1]

createComment(j, nextId) ==
    [nodes |-> <<CommentNode(nextId, nodeValueOf(At(j, 1)))>>,
     nextId |-> nextId + 1]

\* The first child index of an element or fragment description.
firstIndex(j) == IF isNamedNodeMap(At(j, 1)) THEN 2 ELSE 1

\* xmlns of createElement once the attribute object has been read: the
\* attribute's xmlns, else the argument, else htmlns.
elementNamespace(j, xmlns) ==
    IF isNamedNodeMap(At(j, 1)) /\ At(j, 1).xmlns # Undefined THEN At(j, 1).xmlns
    ELSE IF xmlns = Undefined THEN htmlns
    ELSE xmlns

\* The element createElement returns, with its attributes set and its
\* children appended.
elementOf(j, ns, id, kids) ==
    [nodes |-> <<Element(id, ns, Tag(j),
                         IF isNamedNodeMap(At(j, 1))
                         THEN setAttributes(At(j, 1)) ELSE {},
                         kids.nodes)>>,
     nextId |-> kids.nextId]

createElement(j, xmlns, nextId) ==
    elementOf(j, elementNamespace(j, xmlns), nextId,
              appendCreated(j, firstIndex(j), elementNamespace(j, xmlns),
                            [nodes |-> <<>>, nextId |-> nextId + 1]))

createDocumentFragment(j, xmlns, nextId) ==
    appendCreated(j, 1, xmlns, [nodes |-> <<>>, nextId |-> nextId])

createNode(j, xmlns, nextId) ==
    IF IsArray(j)
    THEN CASE Tag(j) = fragment -> createDocumentFragment(j, xmlns, nextId)
           [] Tag(j) = comment -> createComment(j, nextId)
           [] OTHER -> createElement(j, xmlns, nextId)
    ELSE createTextNode(j, nextId)

\* ----------------------------------------------------------- render.js
\* DOM operations on the child sequence of one element, by node identity.
IndexOf(nodes, id) ==
    IF \E k \in 1..Len(nodes) : nodes[k].id = id
    THEN CHOOSE k \in 1..Len(nodes) : nodes[k].id = id
    ELSE 0
NodeOf(nodes, id) == nodes[IndexOf(nodes, id)]
\* node.nextSibling, null for a last child and for a node no longer in the
\* tree.
nextSiblingOf(nodes, id) ==
    LET k == IndexOf(nodes, id)
    IN IF k = 0 \/ k = Len(nodes) THEN Null ELSE nodes[k + 1].id
\* Mutant of replaceWith: the node is removed and the new nodes are appended
\* after the last child.
replaceWith_appended(nodes, id, new) ==
    LET k == IndexOf(nodes, id)
    IN IF k = 0 THEN nodes
       ELSE SubSeq(nodes, 1, k - 1) \o SubSeq(nodes, k + 1, Len(nodes)) \o new
\* node.replaceWith(...new): nothing happens when node has no parent.
replaceWith(nodes, id, new) ==
    LET k == IndexOf(nodes, id)
    IN IF k = 0 THEN nodes
       ELSE SubSeq(nodes, 1, k - 1) \o new \o SubSeq(nodes, k + 1, Len(nodes))

\* TreeWalker.nextSibling() with every child shown: the walker moves to the
\* next sibling of its current node when there is one, and stays otherwise
\* (also when its current node has been detached).
treeWalkerNextSibling(s) ==
    LET n == nextSiblingOf(s.childNodes, s.treeWalker)
    IN [s EXCEPT !.treeWalker = IF n # Null THEN n ELSE @]

\* Mutant of sameNodeName: case ignored in every namespace.
sameNodeName_ignoreCase(j, node) ==
    toLowerCase(node.nodeName) = toLowerCase(nodeNameOf(j))
\* Mutant of sameNodeName: exact case in every namespace.
sameNodeName_exactCase(j, node) == node.nodeName = nodeNameOf(j)
sameNodeName(j, node) ==
    IF node.namespaceURI = svgns
    THEN node.nodeName = nodeNameOf(j)
    ELSE toLowerCase(node.nodeName) = toLowerCase(nodeNameOf(j))

createDelimitedDocumentFragment(j, xmlns, nextId) ==
    appendCreated(j, 1, xmlns,
                  [nodes |-> <<JsonMLDelimiter(nextId)>>, nextId |-> nextId + 1])

createDelimitedNode(j, xmlns, nextId) ==
    IF isDocumentFragment(j)
    THEN createDelimitedDocumentFragment(j, xmlns, nextId)
    ELSE createNode(j, xmlns, nextId)

\* The value patchNode compares and assigns: nodeValueOf of the description
\* itself.
patchNodeValue(j) == nodeValueOf(j)
\* Mutant of nodeValueDiffers: the value is assigned unconditionally.
nodeValueDiffers_always(node, nodeValue) == TRUE
\* if (node.nodeValue !== nodeValue)
nodeValueDiffers(node, nodeValue) == node.nodeValue # nodeValue

\* The patch operators take and return c = [nextId, writes, fault] and give
\* "nodes": what stands in the place of the live node afterwards. writes
\* records every assignment to a nodeValue: the node, its old and new value
\* and the description it was patched against. fault is "none", or
\* "NotFoundError" once removeChild has thrown (the call ends there), or
\* "detached" where a walk would patch a node that has left the tree, a case
\* the walk never reaches (AttachedWhenPatched).

\* node.replaceWith(n), seen from the parent: the nodes of n take the place.
replaced(n, c) ==
    [nodes |-> n.nodes, nextId |-> n.nextId, writes |-> c.writes,
     fault |-> c.fault]

\* if (node.nodeValue !== nodeValue) node.nodeValue = nodeValue;
assigned(j, node, nodeValue, c) ==
    IF nodeValueDiffers(node, nodeValue)
    THEN [nodes |-> <<[node EXCEPT !.nodeValue = nodeValue]>>,
          nextId |-> c.nextId,
          writes |-> c.writes \cup
              {[id |-> node.id, old |-> node.nodeValue,
                new |-> nodeValue, jsonml |-> j]},
          fault |-> c.fault]
    ELSE [nodes |-> <<node>>, nextId |-> c.nextId,
          writes |-> c.writes, fault |-> c.fault]

patchNode(j, node, c) ==
    IF sameNodeName(j, node)
    THEN assigned(j, node, patchNodeValue(j), c)
    ELSE replaced(createDelimitedNode(j, node.namespaceURI, c.nextId), c)

\* Mutant of nextSiblingAfterFragment: the walker's node is taken whether or
\* not it has a next sibling.
nextSiblingAfterFragment_always(s) == s.treeWalker
\* if (treeWalker.currentNode.nextSibling) nextSibling = treeWalker.currentNode;
\* else nextSibling = null;
nextSiblingAfterFragment(s) ==
    IF nextSiblingOf(s.childNodes, s.treeWalker) # Null THEN s.treeWalker ELSE Null

\* Mutant of removeRemaining: only currentNode is removed.
removeRemaining_onlyFirst(s) ==
    LET k == IndexOf(s.childNodes, s.currentNode)
    IN IF s.currentNode = Null THEN s
       ELSE IF k = 0 THEN [s EXCEPT !.fault = "NotFoundError"]
       ELSE [s EXCEPT !.childNodes = SubSeq(@, 1, k - 1) \o SubSeq(@, k + 1, Len(@)),
                      !.currentNode = Null]
\* while (currentNode) { ...; root.removeChild(currentNode); ... }: currentNode
\* and every sibling after it are removed; removeChild throws NotFoundError
\* when currentNode is not a child of root.
removeRemaining(s) ==
    LET k == IndexOf(s.childNodes, s.currentNode)
    IN IF s.currentNode = Null THEN s
       ELSE IF k = 0 THEN [s EXCEPT !.fault = "NotFoundError"]
       ELSE [s EXCEPT !.childNodes = SubSeq(@, 1, k - 1), !.currentNode = Null]

\* The state of one walk, s: childNodes (the children of the walker's root),
\* treeWalker (the walker's currentNode), currentNode (the local variable),
\* nextId, writes, fault.
RECURSIVE patchElement(_, _, _)
RECURSIVE patchElementChildren(_, _, _, _)
RECURSIVE patchDocumentFragment(_, _, _)
RECURSIVE patchDocumentFragmentChildren(_, _, _)
RECURSIVE patchChild(_, _)

\* document.createTreeWalker(root, whatToShow); treeWalker.firstChild()
walk(node, c) ==
    [childNodes |-> node.childNodes, treeWalker |-> node.childNodes[1].id,
     currentNode |-> node.childNodes[1].id, nextId |-> c.nextId,
     writes |-> c.writes, fault |-> c.fault]
\* What a nested patch is given of the walk it is called from.
context(s) == [nextId |-> s.nextId, writes |-> s.writes, fault |-> s.fault]

\* Mutant of place: the next sibling is read after the patch, from the node
\* the walker stood on, which a replacement has detached.
place_after(s, p) ==
    [treeWalkerNextSibling(s) EXCEPT
        !.childNodes = replaceWith(@, s.currentNode, p.nodes),
        !.nextId = p.nextId, !.writes = p.writes, !.fault = p.fault,
        !.currentNode = nextSiblingOf(replaceWith(s.childNodes, s.currentNode,
                                                  p.nodes), s.treeWalker)]
\* let nextSibling = treeWalker.nextSibling(); patch...; currentNode =
\* nextSibling: p is what the patch of the current node returned.
place(s, p) ==
    [treeWalkerNextSibling(s) EXCEPT
        !.childNodes = replaceWith(@, s.currentNode, p.nodes),
        !.nextId = p.nextId, !.writes = p.writes, !.fault = p.fault,
        !.currentNode = nextSiblingOf(s.childNodes, s.treeWalker)]
\* The same after patchDocumentFragment, which walks on with the walker
\* itself: f is the walk it leaves.
afterFragment(f) == [f EXCEPT !.currentNode = nextSiblingAfterFragment(f)]

\* The body of both loops: the walker advances first, then the current live
\* node is patched against the description child, then currentNode becomes
\* nextSibling.
patchChild(cj, s) ==
    IF IndexOf(s.childNodes, s.currentNode) = 0
    THEN [treeWalkerNextSibling(s) EXCEPT
             !.currentNode = nextSiblingOf(s.childNodes, s.treeWalker),
             !.fault = "detached"]
    ELSE IF IsArray(cj)
    THEN CASE Tag(cj) = fragment ->
                afterFragment(patchDocumentFragment(cj, s.currentNode,
                                  treeWalkerNextSibling(s)))
           [] Tag(cj) = comment ->
                place(s, patchNode(cj, NodeOf(s.childNodes, s.currentNode),
                                   context(s)))
           [] OTHER ->
                place(s, patchElement(cj, NodeOf(s.childNodes, s.currentNode),
                                      context(s)))
    ELSE place(s, patchNode(cj, NodeOf(s.childNodes, s.currentNode), context(s)))

\* root.appendChild(n)
appended(s, n) == [s EXCEPT !.childNodes = @ \o n.nodes, !.nextId = n.nextId]

\* for (let i = ...; i < jsonml.length;) of patchElement, lines 13-44.
patchElementChildren(j, i, xmlns, s) ==
    IF i >= Length(j) \/ s.fault # "none" THEN s
    ELSE IF s.currentNode # Null
    THEN patchElementChildren(j, i + 1, xmlns, patchChild(At(j, i), s))
    ELSE patchElementChildren(j, i + 1, xmlns,
             appended(s, createDelimitedNode(At(j, i), xmlns, s.nextId)))

\* The trailing while loop, not reached once removeChild has thrown.
trimmed(s) == IF s.fault # "none" THEN s ELSE removeRemaining(s)
\* What patchElement leaves of a matching node: the node itself, with the
\* children of the finished walk s.
patched(node, s) ==
    [nodes |-> <<[node EXCEPT !.childNodes = s.childNodes]>>,
     nextId |-> s.nextId, writes |-> s.writes, fault |-> s.fault]
\* root.appendChild(f) on a root without children.
filled(node, f, c) ==
    [nodes |-> <<[node EXCEPT !.childNodes = f.nodes]>>,
     nextId |-> f.nextId, writes |-> c.writes, fault |-> c.fault]

patchElement(j, node, c) ==
    IF sameNodeName(j, node)
    THEN IF node.childNodes # <<>>
         THEN patched(node,
                  trimmed(patchElementChildren(j, firstIndex(j),
                              node.namespaceURI, walk(node, c))))
         ELSE filled(node,
                  createDocumentFragment(j, node.namespaceURI, c.nextId), c)
    ELSE replaced(createElement(j, Undefined, c.nextId), c)

\* for (let i = ...; i < jsonml.length;) of patchDocumentFragment, lines 64-97.
\* treeWalker.nextnext is assigned there and read nowhere: it is left out.
patchDocumentFragmentChildren(j, i, s) ==
    IF i >= Length(j) \/ s.fault # "none" THEN s
    ELSE IF s.currentNode # Null
    THEN patchDocumentFragmentChildren(j, i + 1, patchChild(At(j, i), s))
    ELSE patchDocumentFragmentChildren(j, i + 1,
             treeWalkerNextSibling(
                 appended(s, createDelimitedNode(At(j, i), Undefined, s.nextId))))

\* delimiter.replaceWith(fragment)
substituted(s, delimiter, f) ==
    [s EXCEPT !.childNodes = replaceWith(@, delimiter, f.nodes),
              !.nextId = f.nextId]

patchDocumentFragment(j, delimiter, s) ==
    IF IsJsonMLDelimiter(NodeOf(s.childNodes, delimiter))
    THEN patchDocumentFragmentChildren(j, firstIndex(j),
             [s EXCEPT !.currentNode = s.treeWalker])
    ELSE substituted(s, delimiter,
             createDelimitedDocumentFragment(j, Undefined, s.nextId))

\* Mutant of render: the root is taken to be a div.
render_fixedName(j, node, c) == patchElement(Arr(<<Str("div"), j>>), node, c)
\* render(jsonml, root): patchElement([root.nodeName, jsonml], root)
render(j, node, c) == patchElement(Arr(<<Str(node.nodeName), j>>), node, c)

\* ------------------------------------------------------- descriptions
Frag(kids) == Arr(<<Str(fragment)>> \o kids)
Elem(name, kids) == Arr(<<Str(name)>> \o kids)
ElemA(name, attrs, kids) == Arr(<<Str(name), attrs>> \o kids)
Cmt == Arr(<<Str(comment)>>)
CmtV(v) == Arr(<<Str(comment), Str(v)>>)

\* Text and Comment descriptions.
Texts == {Str("a"), Str("b"), Num(1)}
Comments == {Cmt, CmtV("a")}
Leaves == Texts \cup Comments
\* Child sequences of at most two leaves.
KidLeaves == {Str("a"), Str("b"), CmtV("a")}
LeafSeqs == {<<>>} \cup {<<x>> : x \in KidLeaves}
            \cup {<<x, y>> : x \in KidLeaves, y \in KidLeaves}
\* Fragments and elements of leaves.
Flat == {Frag(k) : k \in LeafSeqs} \cup {Elem(n, k) : n \in {"div", "span"}, k \in LeafSeqs}
\* A fragment or an element among the children of a fragment or an element,
\* alone, before a sibling or after one.
Inner == {Frag(<<>>), Frag(<<Str("a")>>), Frag(<<Str("a"), Str("b")>>),
          Elem("span", <<>>), Elem("span", <<Str("a")>>),
          Elem("div", <<Str("a")>>),
          ElemA("span", Map(Undefined, "c"), <<Str("a")>>)}
Around(x) == {<<x>>, <<x, Str("b")>>, <<Str("a"), x>>}
Nested == UNION {{Frag(k), Elem("div", k)} : k \in UNION {Around(x) : x \in Inner}}
\* Names in the other case, attribute objects and a namespace override.
Variants == {Elem("DIV", <<Str("a")>>), Elem("SPAN", <<>>),
             ElemA("div", Map(Undefined, Undefined), <<>>),
             ElemA("div", Map(Undefined, Undefined), <<Str("a")>>),
             ElemA("svg", Map(svgns, Undefined), <<Elem("circle", <<>>)>>),
             Elem("circle", <<>>), Elem("CIRCLE", <<>>),
             Elem("div", <<Elem("circle", <<>>), Elem("span", <<>>)>>)}
\* A Fragment whose last child is a Fragment, alone and before a sibling.
Deep == {Frag(<<Str("a"), Frag(<<Str("a"), Str("b")>>)>>),
         Elem("div", <<Frag(<<Str("a"), Frag(<<Str("a"), Str("b")>>)>>),
                       Str("b")>>)}
Descriptions == Leaves \cup Flat \cup Nested \cup Variants \cup Deep

\* The children a root has before the first render: what the Node Factory
\* builds from a fragment (document.body.append(createNode(...))).
Seeds == {Frag(<<>>), Frag(<<Str("a")>>), Frag(<<Str("a"), Str("b")>>),
          Frag(<<Str("a"), Str("b"), Str("a")>>),
          Frag(<<Elem("span", <<Str("a")>>)>>),
          Frag(<<Elem("span", <<Str("a")>>), Str("b")>>),
          Frag(<<Elem("div", <<Str("a"), Str("b"), CmtV("a")>>), Cmt>>)}
SvgSeeds == {Frag(<<>>), Frag(<<Elem("circle", <<>>)>>),
             Frag(<<Elem("circle", <<>>), Elem("circle", <<>>)>>)}

\* The number of render calls of one behaviour.
MaxRenders == 2

\* ----------------------------------------------------- the state machine
\* Node identities are object references: only their equality is observable.
\* At the end of a call the nodes of the old and of the new tree are renamed
\* together: the new tree in document order from 1 (root), then the nodes
\* that left the tree. prev and root so share the identities of one call, and
\* nextId is the size of the tree plus one.
RECURSIVE idsOf(_)
RECURSIVE idsOfAll(_)
idsOfAll(nodes) == IF nodes = <<>> THEN <<>> ELSE idsOf(nodes[1]) \o idsOfAll(Tail(nodes))
idsOf(node) == <<node.id>> \o idsOfAll(node.childNodes)

RECURSIVE renamed(_, _)
renamed(node, order) ==
    [node EXCEPT !.id = CHOOSE k \in 1..Len(order) : order[k] = node.id,
                 !.childNodes = [k \in DOMAIN node.childNodes |->
                                    renamed(node.childNodes[k], order)]]

RECURSIVE without(_, _)
without(ids, gone) ==
    IF ids = <<>> THEN <<>>
    ELSE IF ids[1] \in gone THEN without(Tail(ids), gone)
    ELSE <<ids[1]>> \o without(Tail(ids), gone)

Range(seq) == {seq[k] : k \in 1..Len(seq)}
orderOf(old, new) ==
    LET kept == idsOf(new) IN kept \o without(idsOf(old), Range(kept))

RootOf(ns, name, seed) ==
    Element(1, ns, name, {}, createDocumentFragment(seed, ns, 2).nodes)

Init ==
    /\ root \in {RootOf(htmlns, "div", seed) : seed \in Seeds}
                \cup {RootOf(svgns, "svg", seed) : seed \in SvgSeeds}
    /\ prev = root
    /\ jsonml = UndefinedValue
    /\ writes = {}
    /\ fault = "none"
    /\ repeated = FALSE
    /\ calls = 0
    /\ pc = "idle"
    /\ stack = <<>>

\* The caller invokes render(D, root): the argument is bound and the record
\* of the previous call is dropped.
Call(D) ==
    /\ pc = "idle"
    /\ calls < MaxRenders
    /\ pc' = "render"
    /\ jsonml' = D
    /\ repeated' = (jsonml = D)
    /\ prev' = root
    /\ writes' = {}
    /\ fault' = "none"
    /\ calls' = calls + 1
    /\ UNCHANGED <<root, stack>>

\* What the call leaves: the tree, the assignments it made and how it ended,
\* with the identities renamed.
Returns(r, order) ==
    /\ root' = renamed(r.nodes[1], order)
    /\ prev' = renamed(root, order)
    /\ writes' = {[w EXCEPT !.id = CHOOSE k \in 1..Len(order) : order[k] = w.id] :
                     w \in r.writes}
    /\ fault' = r.fault

\* render(jsonml, root) runs to its end (or to the exception it throws).
Render ==
    /\ pc = "render"
    /\ \E r \in {render(jsonml, root,
                        [nextId |-> Len(idsOf(root)) + 1, writes |-> {},
                         fault |-> "none"])} :
          Returns(r, orderOf(root, r.nodes[1]))
    /\ pc' = "idle"
    /\ UNCHANGED <<jsonml, repeated, calls, stack>>

Next == (\E D \in Descriptions : Call(D)) \/ Render

Spec == Init /\ [][Next]_vars

\* The same description rendered again and again into the same root: the
\* first call binds D, every later call passes it again.
First(D) == calls = 0 /\ Call(D)
Again ==
    /\ pc = "idle"
    /\ calls > 0
    /\ pc' = "render"
    /\ repeated' = TRUE
    /\ prev' = root
    /\ writes' = {}
    /\ fault' = "none"
    /\ UNCHANGED <<root, jsonml, calls, stack>>

NextRepeated == (\E D \in Descriptions : First(D)) \/ Again \/ Render

\* A call is made or returns. NextRepeated is enabled in every state and each
\* of its steps is such a step, so weak fairness of Proceeds on pc is weak
\* fairness of NextRepeated: the caller goes on calling and every call runs
\* to its end.
Proceeds ==
    \/ pc = "idle" /\ pc' = "render"
    \/ pc = "render" /\ pc' = "idle"
SpecRepeated == Init /\ [][NextRepeated]_vars /\ WF_pc(Proceeds)
\* ------------------------------------------------- the call, step by step
\* The same call with every loop iteration and every nested call a step of
\* its own. stack is the call stack, the frame of the running function last.
\* A frame holds the function, its jsonml argument, its node argument (root
\* of patchElement, delimiter of patchDocumentFragment, as it was at the
\* call), the loop index i, the position in the function, and s: the context
\* c on entering patchElement, the walk inside the loops (the caller's walk
\* in patchDocumentFragment, which shares the caller's walker and root), and
\* what the function returns once it has reached its end.
Frame(fn, j, node, i, s, at) ==
    [fn |-> fn, jsonml |-> j, node |-> node, i |-> i, s |-> s, at |-> at]

top == stack[Len(stack)]
caller == stack[Len(stack) - 1]
\* The stack after the running function went on to f, after it called
\* callee, and after it returned to its caller, which goes on as f.
continued(f) == [stack EXCEPT ![Len(stack)] = f]
called(f, callee) == Append(continued(f), callee)
returnedTo(f) == Append(SubSeq(stack, 1, Len(stack) - 2), f)

\* jsonml[i++]
increment(i) == i + 1

\* render(jsonml, root): patchElement([root.nodeName, jsonml], root)
Begin ==
    /\ pc = "render"
    /\ stack = <<>>
    /\ stack' = <<Frame("patchElement", Arr(<<Str(root.nodeName), jsonml>>),
                        root, 0,
                        [nextId |-> Len(idsOf(root)) + 1, writes |-> {},
                         fault |-> "none"], "enter")>>
    /\ UNCHANGED <<root, prev, jsonml, writes, fault, repeated, calls, pc>>

\* patchElement up to its loop: lines 9-12 and 51-57.
elementEntered(f) ==
    IF ~sameNodeName(f.jsonml, f.node)
    THEN [f EXCEPT !.s = replaced(createElement(f.jsonml, Undefined, f.s.nextId),
                                  f.s),
                   !.at = "return"]
    ELSE IF f.node.childNodes = <<>>
    THEN [f EXCEPT !.s = filled(f.node,
                             createDocumentFragment(f.jsonml, f.node.namespaceURI,
                                                    f.s.nextId), f.s),
                   !.at = "return"]
    ELSE [f EXCEPT !.s = walk(f.node, f.s), !.i = firstIndex(f.jsonml),
                   !.at = "loop"]

PatchElementEnter ==
    /\ stack # <<>>
    /\ top.fn = "patchElement"
    /\ top.at = "enter"
    /\ stack' = continued(elementEntered(top))
    /\ UNCHANGED <<root, prev, jsonml, writes, fault, repeated, calls, pc>>

\* The body of both loops on a live node, lines 14-39 and 65-90: a Fragment
\* or an Element description is a call, a Text or a Comment description is
\* patched at once.
bodyOnNode(f, cj) ==
    IF IndexOf(f.s.childNodes, f.s.currentNode) # 0 /\ IsArray(cj)
       /\ Tag(cj) = fragment
    THEN called([f EXCEPT !.i = increment(f.i)],
                Frame("patchDocumentFragment", cj,
                      NodeOf(f.s.childNodes, f.s.currentNode), 0,
                      treeWalkerNextSibling(f.s), "enter"))
    ELSE IF IndexOf(f.s.childNodes, f.s.currentNode) # 0 /\ IsArray(cj)
            /\ Tag(cj) # comment
    THEN called([f EXCEPT !.i = increment(f.i)],
                Frame("patchElement", cj,
                      NodeOf(f.s.childNodes, f.s.currentNode), 0,
                      context(f.s), "enter"))
    ELSE continued([f EXCEPT !.i = increment(f.i), !.s = patchChild(cj, f.s)])

\* One iteration of for (let i = ...; i < jsonml.length;) of patchElement,
\* lines 13-44, or its end.
elementLooped(f) ==
    IF f.i >= Length(f.jsonml) \/ f.s.fault # "none"
    THEN continued([f EXCEPT !.at = "trim"])
    ELSE IF f.s.currentNode # Null
    THEN bodyOnNode(f, At(f.jsonml, f.i))
    ELSE continued([f EXCEPT
             !.i = increment(f.i),
             !.s = appended(f.s, createDelimitedNode(At(f.jsonml, f.i),
                                     f.node.namespaceURI, f.s.nextId))])

PatchElementLoop ==
    /\ stack # <<>>
    /\ top.fn = "patchElement"
    /\ top.at = "loop"
    /\ stack' = elementLooped(top)
    /\ UNCHANGED <<root, prev, jsonml, writes, fault, repeated, calls, pc>>

\* Mutant of removeCurrent: the loop body neither removes the node nor moves
\* on to its next sibling.
removeCurrent_stay(s) == s
\* One iteration of while (currentNode), lines 45-49: const nextSibling =
\* currentNode.nextSibling; root.removeChild(currentNode); currentNode =
\* nextSibling.
removeCurrent(s) ==
    IF IndexOf(s.childNodes, s.currentNode) = 0
    THEN [s EXCEPT !.fault = "NotFoundError"]
    ELSE [s EXCEPT !.childNodes = replaceWith(@, s.currentNode, <<>>),
                   !.currentNode = nextSiblingOf(s.childNodes, s.currentNode)]

elementTrimmed(f) ==
    IF f.s.currentNode = Null \/ f.s.fault # "none"
    THEN [f EXCEPT !.s = patched(f.node, f.s), !.at = "return"]
    ELSE [f EXCEPT !.s = removeCurrent(f.s)]

PatchElementTrim ==
    /\ stack # <<>>
    /\ top.fn = "patchElement"
    /\ top.at = "trim"
    /\ stack' = continued(elementTrimmed(top))
    /\ UNCHANGED <<root, prev, jsonml, writes, fault, repeated, calls, pc>>

\* patchDocumentFragment up to its loop: lines 61-63 and 99-102.
fragmentEntered(f) ==
    IF IsJsonMLDelimiter(NodeOf(f.s.childNodes, f.node.id))
    THEN [f EXCEPT !.s = [f.s EXCEPT !.currentNode = f.s.treeWalker],
                   !.i = firstIndex(f.jsonml), !.at = "loop"]
    ELSE [f EXCEPT !.s = substituted(f.s, f.node.id,
                             createDelimitedDocumentFragment(f.jsonml, Undefined,
                                                             f.s.nextId)),
                   !.at = "return"]

PatchDocumentFragmentEnter ==
    /\ stack # <<>>
    /\ top.fn = "patchDocumentFragment"
    /\ top.at = "enter"
    /\ stack' = continued(fragmentEntered(top))
    /\ UNCHANGED <<root, prev, jsonml, writes, fault, repeated, calls, pc>>

\* One iteration of for (let i = ...; i < jsonml.length;) of
\* patchDocumentFragment, lines 64-97, or its end.
fragmentLooped(f) ==
    IF f.i >= Length(f.jsonml) \/ f.s.fault # "none"
    THEN continued([f EXCEPT !.at = "return"])
    ELSE IF f.s.currentNode # Null
    THEN bodyOnNode(f, At(f.jsonml, f.i))
    ELSE continued([f EXCEPT
             !.i = increment(f.i),
             !.s = treeWalkerNextSibling(
                       appended(f.s, createDelimitedNode(At(f.jsonml, f.i),
                                         Undefined, f.s.nextId)))])

PatchDocumentFragmentLoop ==
    /\ stack # <<>>
    /\ top.fn = "patchDocumentFragment"
    /\ top.at = "loop"
    /\ stack' = fragmentLooped(top)
    /\ UNCHANGED <<root, prev, jsonml, writes, fault, repeated, calls, pc>>

\* A nested call returns into the loop body it was made from: currentNode =
\* nextSibling, lines 21-26 and 72-77 after patchDocumentFragment, lines 39
\* and 90 after patchElement.
resumed(f, callee) ==
    [f EXCEPT !.s = IF callee.fn = "patchElement" THEN place(f.s, callee.s)
                    ELSE afterFragment(callee.s)]

Return ==
    /\ Len(stack) > 1
    /\ top.at = "return"
    /\ stack' = returnedTo(resumed(caller, top))
    /\ UNCHANGED <<root, prev, jsonml, writes, fault, repeated, calls, pc>>

\* patchElement returns to render, and render to its caller.
Finish ==
    /\ Len(stack) = 1
    /\ top.at = "return"
    /\ \E order \in {orderOf(root, top.s.nodes[1])} : Returns(top.s, order)
    /\ pc' = "idle"
    /\ stack' = <<>>
    /\ UNCHANGED <<jsonml, repeated, calls>>

Step ==
    \/ Begin
    \/ PatchElementEnter
    \/ PatchElementLoop
    \/ PatchElementTrim
    \/ PatchDocumentFragmentEnter
    \/ PatchDocumentFragmentLoop
    \/ Return
    \/ Finish

\* The descriptions rendered step by step: texts, fragments and div elements,
\* without attribute objects.
RECURSIVE ofDivs(_)
ofDivs(j) ==
    \/ j.type = "string"
    \/ /\ IsArray(j)
       /\ Tag(j) \in {fragment, "div"}
       /\ \A k \in 2..Len(j.items) : ofDivs(j.items[k])
StepDescriptions == {D \in Descriptions : ofDivs(D)}

NextStepwise == (\E D \in StepDescriptions : Call(D)) \/ Step

\* A call that has begun goes on to its next statement: the engine runs the
\* call it was given. The caller need not call again.
SpecStepwise == Init /\ [][NextStepwise]_vars /\ WF_vars(Step)

\* What the steps of a call hand back to render is what render gives as one
\* step.
StepwiseIsRender ==
    (Len(stack) = 1 /\ top.at = "return") =>
        top.s = render(jsonml, root, [nextId |-> Len(idsOf(root)) + 1,
                                      writes |-> {}, fault |-> "none"])

\* A call has returned: prev, jsonml, root and writes are those of the last
\* call.
Returned == pc = "idle" /\ calls > 0

\* The walks patch only nodes that are in the tree.
AttachedWhenPatched == fault # "detached"

\* --------------------------------------------------------------- claims
\* A live child sequence by node kind, name and value, recursively, with the
\* Delimiters left out. Names are compared in lower case.
RECURSIVE shapeOf(_)
RECURSIVE shapeOfAll(_)
shapeOfAll(nodes) ==
    IF nodes = <<>> THEN <<>>
    ELSE IF IsJsonMLDelimiter(nodes[1]) THEN shapeOfAll(Tail(nodes))
    ELSE <<shapeOf(nodes[1])>> \o shapeOfAll(Tail(nodes))
shapeOf(node) ==
    [nodeType |-> node.nodeType, nodeName |-> toLowerCase(node.nodeName),
     nodeValue |-> node.nodeValue, childNodes |-> shapeOfAll(node.childNodes)]

\* The children of an element or fragment description.
kidsOf(j) == SubSeq(j.items, firstIndex(j) + 1, Len(j.items))
isComment(j) == IsArray(j) /\ Tag(j) = comment
isElement(j) == IsArray(j) /\ Tag(j) # comment /\ Tag(j) # fragment
isText(j) == ~IsArray(j)
\* The set of identities of a subtree.
IdSet(node) == Range(idsOf(node))
\* An identity larger than every identity of the last call.
FreshId == Len(idsOf(prev)) + Len(idsOf(root)) + 1

\* C1: after render(D, root), from any starting children, the children of
\* root (by kind, name and value, recursively, Delimiters disregarded) are
\* the nodes createNode builds from D.
C1_Convergence ==
    Returned =>
        shapeOfAll(root.childNodes)
            = shapeOfAll(createNode(jsonml, root.namespaceURI, 1).nodes)

\* C2: a second render(D, root) with the same D changes nothing: the tree,
\* with its node identities and values, is the one before the call, and no
\* value is written.
C2_Idempotent == (Returned /\ repeated) => (root = prev /\ writes = {})

\* A description with every Fragment replaced by its children, transitively.
RECURSIVE inlinedAll(_)
inlinedAll(items) ==
    IF items = <<>> THEN <<>>
    ELSE LET j == items[1]
         IN (IF isDocumentFragment(j) THEN inlinedAll(kidsOf(j))
             ELSE IF isElement(j)
             THEN <<Arr(SubSeq(j.items, 1, firstIndex(j)) \o inlinedAll(kidsOf(j)))>>
             ELSE <<j>>)
            \o inlinedAll(Tail(items))
\* A Fragment stands among the children of an element or fragment of j, next
\* to at least one sibling.
RECURSIVE fragmentBesideSibling(_)
fragmentBesideSibling(j) ==
    /\ IsArray(j)
    /\ ~isComment(j)
    /\ \/ /\ Len(kidsOf(j)) >= 2
          /\ \E k \in 1..Len(kidsOf(j)) : isDocumentFragment(kidsOf(j)[k])
       \/ \E k \in 1..Len(kidsOf(j)) : fragmentBesideSibling(kidsOf(j)[k])

\* C3: the live siblings after patching a description with a Fragment beside
\* siblings are, Delimiters disregarded, those after patching the same tree
\* against the description with every Fragment inlined.
C3_FragmentTransparent ==
    (Returned /\ fragmentBesideSibling(jsonml)) =>
        shapeOfAll(root.childNodes)
            = shapeOfAll(patchElement(
                  Arr(<<Str(prev.nodeName)>> \o inlinedAll(<<jsonml>>)), prev,
                  [nextId |-> FreshId, writes |-> {}, fault |-> "none"]
              ).nodes[1].childNodes)

\* C4: a Fragment rendered into a root without children gives one Delimiter
\* followed by the nodes of the Fragment's children.
C4_FreshFragmentDelimited ==
    (Returned /\ prev.childNodes = <<>> /\ isDocumentFragment(jsonml)) =>
        /\ root.childNodes # <<>>
        /\ IsJsonMLDelimiter(root.childNodes[1])
        /\ Tail(root.childNodes)
               = createDocumentFragment(jsonml, root.namespaceURI, 3).nodes

\* The stringified value a Text or Comment description asks for: the
\* primitive itself, or the Comment's value entry.
describedValue(j) == IF IsArray(j) THEN nodeValueOf(At(j, 1)) ELSE nodeValueOf(j)

\* C6: no nodeValue is assigned on a node whose value already is the
\* stringified value of the description it is patched against.
C6_NoRedundantWrite == \A w \in writes : w.old # describedValue(w.jsonml)

\* The Matcher rule of the specification: the description's name equals the
\* live node's name, in exact case for a live node in the SVG namespace and
\* ignoring case otherwise.
descriptionName(j) ==
    IF isText(j) THEN "#text" ELSE j.items[1].str
matches(j, node) ==
    IF node.namespaceURI = "http://www.w3.org/2000/svg"
    THEN node.nodeName = descriptionName(j)
    ELSE toLowerCase(node.nodeName) = toLowerCase(descriptionName(j))
\* No child of description j is a Fragment.
plain(j) == \A k \in 1..Len(kidsOf(j)) : ~isDocumentFragment(kidsOf(j)[k])
Min(a, b) == IF a < b THEN a ELSE b
\* The description render patches root against.
Wrapped == Arr(<<Str(prev.nodeName), jsonml>>)

\* The live children are a Delimiter followed by Text nodes only.
mountedTexts(nodes) ==
    /\ nodes # <<>>
    /\ IsJsonMLDelimiter(nodes[1])
    /\ \A k \in 2..Len(nodes) : nodes[k].nodeType = "text"
\* A Fragment of Text children.
fragmentOfTexts(j) ==
    /\ isDocumentFragment(j)
    /\ \A k \in 1..Len(kidsOf(j)) : kidsOf(j)[k].type \in {"string", "number"}
C5_Case ==
    /\ Returned
    /\ mountedTexts(prev.childNodes)
    /\ fragmentOfTexts(jsonml)
    /\ Len(kidsOf(jsonml)) = Len(prev.childNodes) - 1

\* C5: a Fragment of n Texts rendered over [Delimiter, t1..tn] keeps the
\* Delimiter and every ti (same nodes, same order), assigns a value to
\* exactly the ti whose value differs from the stringified new child, and
\* creates, removes and replaces nothing.
C5_FragmentRepatchInPlace ==
    C5_Case =>
        /\ Len(root.childNodes) = Len(prev.childNodes)
        /\ root.childNodes[1] = prev.childNodes[1]
        /\ \A k \in 2..Len(prev.childNodes) :
               root.childNodes[k]
                   = [prev.childNodes[k] EXCEPT
                         !.nodeValue = nodeValueOf(kidsOf(jsonml)[k - 1])]
        /\ {w.id : w \in writes}
               = {prev.childNodes[k].id : k \in
                     {i \in 2..Len(prev.childNodes) :
                         prev.childNodes[i].nodeValue
                             # nodeValueOf(kidsOf(jsonml)[i - 1])}}
C5_Witness ==
    /\ C5_Case
    /\ Len(prev.childNodes) = 3
    /\ Cardinality(writes) = 1
    /\ root.childNodes[2] = prev.childNodes[2]
    /\ root.childNodes[3] # prev.childNodes[3]

\* C7 for one patch of description j against the matching live element b,
\* which became a, and for the matching elements below it.
RECURSIVE surplusTrimmed(_, _, _)
surplusTrimmed(j, b, a) ==
    LET kids == kidsOf(j)
        n == Len(kids)
        m == Len(b.childNodes)
    IN plain(j) =>
         /\ m > n =>
              /\ Len(a.childNodes) = n
              /\ \A k \in (n + 1)..m :
                     IdSet(b.childNodes[k]) \cap IdSet(root) = {}
              /\ \A k \in 1..n :
                     \/ a.childNodes[k].id = b.childNodes[k].id
                     \/ a.childNodes[k].id \notin IdSet(prev)
         /\ \A k \in 1..Min(Min(n, m), Len(a.childNodes)) :
                (/\ isElement(kids[k])
                 /\ matches(kids[k], b.childNodes[k])
                 /\ a.childNodes[k].id = b.childNodes[k].id)
                    => surplusTrimmed(kids[k], b.childNodes[k], a.childNodes[k])

\* C7: an Element description with n children, none a Fragment, patched
\* against a matching live element with m > n children leaves exactly n
\* children: the live nodes at positions n..m-1 are removed, and each
\* position below n holds the node it held or a new one.
C7_TrailingTrim == Returned => surplusTrimmed(Wrapped, prev, root)
C7_Witness ==
    /\ Returned
    /\ isElement(jsonml)
    /\ plain(jsonml)
    /\ Len(kidsOf(jsonml)) = 1
    /\ prev.childNodes # <<>>
    /\ matches(jsonml, prev.childNodes[1])
    /\ Len(prev.childNodes[1].childNodes) = 3
    /\ Len(root.childNodes) = 1
    /\ Len(root.childNodes[1].childNodes) = 1
    /\ root.childNodes[1].childNodes[1].id = prev.childNodes[1].childNodes[1].id

\* C8 for one patch of description j against the matching live element b,
\* which became a, and for the matching elements below it.
RECURSIVE matchedReused(_, _, _)
matchedReused(j, b, a) ==
    LET kids == kidsOf(j)
    IN \A k \in 1..Min(Len(kids), Len(b.childNodes)) :
           (/\ \A i \in 1..(k - 1) : ~isDocumentFragment(kids[i])
            /\ isElement(kids[k])
            /\ b.childNodes[k].nodeType = "element"
            /\ matches(kids[k], b.childNodes[k]))
               => /\ k <= Len(a.childNodes)
                  /\ a.childNodes[k].id = b.childNodes[k].id
                  /\ a.childNodes[k].nodeName = b.childNodes[k].nodeName
                  /\ a.childNodes[k].namespaceURI = b.childNodes[k].namespaceURI
                  /\ a.childNodes[k].attributes = b.childNodes[k].attributes
                  /\ (/\ kidsOf(kids[k]) # <<>>
                      /\ isText(kidsOf(kids[k])[1])
                      /\ b.childNodes[k].childNodes # <<>>
                      /\ b.childNodes[k].childNodes[1].nodeType = "text")
                         => a.childNodes[k].childNodes[1]
                               = [b.childNodes[k].childNodes[1] EXCEPT
                                     !.nodeValue = nodeValueOf(kidsOf(kids[k])[1])]
                  /\ matchedReused(kids[k], b.childNodes[k], a.childNodes[k])

\* C8: a live element whose name matches the description Element at its
\* position, with no Fragment before it among the description siblings,
\* stays the same node with the same name, namespace and attributes; its
\* descendants are reconciled (a first Text child keeps its node and takes
\* the described value).
C8_MatchedElementReused == Returned => matchedReused(Wrapped, prev, root)
C8_Witness ==
    /\ Returned
    /\ jsonml = Elem("span", <<Str("b")>>)
    /\ Len(prev.childNodes) = 1
    /\ prev.childNodes[1].nodeName = "SPAN"
    /\ Len(prev.childNodes[1].childNodes) = 1
    /\ prev.childNodes[1].childNodes[1].nodeType = "text"
    /\ prev.childNodes[1].childNodes[1].nodeValue = "a"
    /\ root.childNodes[1].id = prev.childNodes[1].id
    /\ root.childNodes[1].childNodes[1].id = prev.childNodes[1].childNodes[1].id
    /\ root.childNodes[1].childNodes[1].nodeValue = "b"

\* A subtree with its identities erased.
RECURSIVE erased(_)
erased(node) ==
    [node EXCEPT !.id = 0,
                 !.childNodes = [k \in DOMAIN node.childNodes |->
                                    erased(node.childNodes[k])]]

\* C9 for one patch of description j, none of whose children is a Fragment,
\* against the matching live element b, which became a, and for the matching
\* elements below it.
RECURSIVE mismatchReplaced(_, _, _)
mismatchReplaced(j, b, a) ==
    LET kids == kidsOf(j)
        both == Min(Len(kids), Len(b.childNodes))
    IN plain(j) =>
         \A k \in 1..both :
            /\ (isElement(kids[k]) /\ ~matches(kids[k], b.childNodes[k]))
                 => /\ k <= Len(a.childNodes)
                    /\ IdSet(a.childNodes[k]) \cap IdSet(prev) = {}
                    /\ erased(a.childNodes[k])
                           = erased(createElement(kids[k], Undefined, 1).nodes[1])
                    /\ IdSet(b.childNodes[k]) \cap IdSet(root) = {}
                    /\ \A w \in writes : w.id \notin IdSet(b.childNodes[k])
                    /\ \A q \in 1..both :
                           (q # k /\ matches(kids[q], b.childNodes[q]))
                               => a.childNodes[q].id = b.childNodes[q].id
            /\ (/\ isElement(kids[k])
                /\ matches(kids[k], b.childNodes[k])
                /\ k <= Len(a.childNodes)
                /\ a.childNodes[k].id = b.childNodes[k].id)
                 => mismatchReplaced(kids[k], b.childNodes[k], a.childNodes[k])

\* C9: a live node whose name does not match the description Element it is
\* patched against leaves the tree with all its descendants, unmutated; a new
\* subtree, the one createElement builds from the description, stands at its
\* position; its matching siblings keep their identity and position.
C9_MismatchReplaced == Returned => mismatchReplaced(Wrapped, prev, root)
C9_Witness ==
    /\ Returned
    /\ isElement(jsonml)
    /\ plain(jsonml)
    /\ Len(kidsOf(jsonml)) = 2
    /\ isElement(kidsOf(jsonml)[1])
    /\ Len(prev.childNodes) = 1
    /\ matches(jsonml, prev.childNodes[1])
    /\ Len(prev.childNodes[1].childNodes) = 2
    /\ prev.childNodes[1].childNodes[1].nodeType = "element"
    /\ prev.childNodes[1].childNodes[1].childNodes # <<>>
    /\ ~matches(kidsOf(jsonml)[1], prev.childNodes[1].childNodes[1])
    /\ root.childNodes[1].childNodes[1].id \notin IdSet(prev)
    /\ root.childNodes[1].childNodes[2].id = prev.childNodes[1].childNodes[2].id

\* C10: render never replaces, removes or renames root: after the call root
\* is the same node with the same name, namespace and attributes.
C10_RootKept ==
    Returned =>
        /\ root.id = prev.id
        /\ root.nodeType = "element"
        /\ root.nodeName = prev.nodeName
        /\ root.namespaceURI = prev.namespaceURI
        /\ root.attributes = prev.attributes
C10_Witness ==
    /\ Returned
    /\ isElement(jsonml)
    /\ ~matches(jsonml, prev)
    /\ root.namespaceURI = svgns
    /\ root.childNodes # prev.childNodes

\* Every node of a live tree.
RECURSIVE NodesOf(_)
NodesOf(node) ==
    {node} \cup UNION {NodesOf(node.childNodes[k]) : k \in DOMAIN node.childNodes}
\* Descriptions of every kind and name, in both cases.
NameProbes ==
    {Str("a"), Str("#comment"), Num(1), Bool(TRUE), NullValue, Cmt, CmtV("a"),
     Frag(<<>>), Frag(<<Str("a")>>)}
    \cup {Elem(n, <<>>) : n \in {"div", "DIV", "span", "SPAN", "svg", "SVG",
                                 "circle", "CIRCLE"}}

\* C11: sameNodeName(description, liveNode) is true exactly when the name of
\* the description (tag, "#comment", "#document-fragment", or "#text" for a
\* non-array) equals the name of the live node, in exact case for a live node
\* in the SVG namespace and ignoring case otherwise; values play no part.
C11_SameNodeName ==
    \A node \in NodesOf(root) :
        \A j \in NameProbes \cup {jsonml} :
            sameNodeName(j, node) <=> matches(j, node)
C11_Witness ==
    /\ Returned
    /\ jsonml = Elem("CIRCLE", <<>>)
    /\ prev.namespaceURI = svgns
    /\ Len(prev.childNodes) = 1
    /\ prev.childNodes[1].nodeName = "circle"
    /\ ~sameNodeName(jsonml, prev.childNodes[1])
    /\ sameNodeName(Elem("circle", <<>>), prev.childNodes[1])
    /\ root.childNodes[1].id \notin IdSet(prev)

\* C12: no render call raises an error: a mismatch is resolved by replacing
\* the live node, also where the walker is left on a node the call detached.
C12_NoFault == fault = "none"
\* The only live child of an element is replaced while the walker stands on
\* it, and the walk goes on from there to the next description child.
C12_Witness ==
    /\ Returned
    /\ jsonml = Elem("div", <<Elem("span", <<>>), Str("b")>>)
    /\ Len(prev.childNodes) = 1
    /\ prev.childNodes[1].nodeName = "DIV"
    /\ Len(prev.childNodes[1].childNodes) = 1
    /\ prev.childNodes[1].childNodes[1].nodeType = "text"
    /\ root.childNodes[1].id = prev.childNodes[1].id
    /\ Len(root.childNodes[1].childNodes) = 2
    /\ IdSet(prev.childNodes[1].childNodes[1]) \cap IdSet(root) = {}
    /\ fault = "none"

\* The number of Delimiters in a live subtree, and of Fragments in a
\* description.
delimitersIn(node) ==
    Cardinality({n \in NodesOf(node) : IsJsonMLDelimiter(n)})
RECURSIVE fragmentsIn(_)
RECURSIVE fragmentsInAll(_)
fragmentsInAll(items) ==
    IF items = <<>> THEN 0 ELSE fragmentsIn(items[1]) + fragmentsInAll(Tail(items))
fragmentsIn(j) ==
    IF isDocumentFragment(j) THEN 1 + fragmentsInAll(kidsOf(j))
    ELSE IF isElement(j) THEN fragmentsInAll(kidsOf(j))
    ELSE 0

\* C13: after a render, the live tree holds one Delimiter for every Fragment
\* of the rendered description and no other; the Delimiter of a Fragment
\* rendered at the root is the first child of root.
C13_OneDelimiterPerFragment ==
    Returned =>
        /\ delimitersIn(root) = fragmentsIn(jsonml)
        /\ isDocumentFragment(jsonml) =>
               /\ root.childNodes # <<>>
               /\ IsJsonMLDelimiter(root.childNodes[1])

\* C14: a Fragment rendered where the live tree has the Delimiter of a
\* mounted Fragment leaves that Delimiter in place, the same node, and does
\* not use it as the live node of one of its children: every child that is
\* not a Fragment has a live node of its own after the Delimiter.
C14_DelimiterPersists ==
    (/\ Returned
     /\ isDocumentFragment(jsonml)
     /\ prev.childNodes # <<>>
     /\ IsJsonMLDelimiter(prev.childNodes[1])) =>
        /\ root.childNodes # <<>>
        /\ root.childNodes[1] = prev.childNodes[1]
        /\ plain(jsonml) => Len(root.childNodes) - 1 >= Len(kidsOf(jsonml))

\* A Text or Comment description and a live node of the same kind (a
\* Delimiter is not taken for a Comment here).
sameKind(j, node) ==
    \/ isText(j) /\ node.nodeType = "text"
    \/ isComment(j) /\ node.nodeType = "comment" /\ ~node.delimiter

\* C15: a Text or Comment description patched against a live node of the
\* same kind leaves that node in its place with the stringified value of the
\* description: the primitive of a Text, the value entry of a Comment.
C15_PatchNodeValue ==
    (/\ Returned
     /\ prev.childNodes # <<>>
     /\ sameKind(jsonml, prev.childNodes[1])) =>
        /\ root.childNodes # <<>>
        /\ root.childNodes[1]
               = [prev.childNodes[1] EXCEPT !.nodeValue = describedValue(jsonml)]

\* A child sequence with its identities erased.
erasedAll(nodes) == [k \in DOMAIN nodes |-> erased(nodes[k])]

\* C16: an Element description patched against a matching live element
\* without children leaves that element with exactly the nodes built from the
\* description's children, in order; an attribute object gives no child.
C16_EmptyLiveFilled ==
    (/\ Returned
     /\ isElement(jsonml)
     /\ prev.childNodes # <<>>
     /\ prev.childNodes[1].nodeType = "element"
     /\ prev.childNodes[1].childNodes = <<>>
     /\ matches(jsonml, prev.childNodes[1])) =>
        /\ root.childNodes # <<>>
        /\ root.childNodes[1].id = prev.childNodes[1].id
        /\ erasedAll(root.childNodes[1].childNodes)
               = erasedAll(createDocumentFragment(
                     Frag(kidsOf(jsonml)), prev.childNodes[1].namespaceURI, 1).nodes)

\* C17 for one patch of description j against the live element b, which
\* became a: the first child of j is a Fragment with more children than the
\* live nodes that follow its Delimiter in b, and the children reconciled
\* against those live nodes are Texts.
runsOut(j, b) ==
    /\ kidsOf(j) # <<>>
    /\ isDocumentFragment(kidsOf(j)[1])
    /\ Len(b.childNodes) >= 2
    /\ IsJsonMLDelimiter(b.childNodes[1])
    /\ Len(kidsOf(kidsOf(j)[1])) > Len(b.childNodes) - 1
    /\ \A k \in 1..(Len(b.childNodes) - 1) : isText(kidsOf(kidsOf(j)[1])[k])
    /\ \A k \in 2..Len(kidsOf(j)) : isText(kidsOf(j)[k])
appendedInOrder(j, b, a) ==
    runsOut(j, b) =>
        shapeOfAll(a.childNodes)
            = shapeOfAll(createDocumentFragment(Frag(kidsOf(j)),
                                                b.namespaceURI, 1).nodes)

\* C17: where the live siblings run out inside a delimited Fragment, the
\* remaining Fragment children are appended in order, and the description
\* siblings after the Fragment come after all of them: none of the new nodes
\* is patched over or trimmed in the same call.
C17_AppendedPastFragment ==
    Returned =>
        /\ appendedInOrder(Wrapped, prev, root)
        /\ (/\ isElement(jsonml)
            /\ prev.childNodes # <<>>
            /\ root.childNodes # <<>>
            /\ prev.childNodes[1].nodeType = "element"
            /\ matches(jsonml, prev.childNodes[1])
            /\ root.childNodes[1].id = prev.childNodes[1].id)
               => appendedInOrder(jsonml, prev.childNodes[1], root.childNodes[1])

\* No attribute object of description j names a namespace.
RECURSIVE noOverride(_)
noOverride(j) ==
    IsArray(j) =>
        /\ isNamedNodeMap(At(j, 1)) => At(j, 1).xmlns = Undefined
        /\ ~isComment(j) =>
               \A k \in 1..Len(kidsOf(j)) : noOverride(kidsOf(j)[k])
\* Every element of a live tree is in the namespace ns.
uniform(node, ns) ==
    \A n \in NodesOf(node) : n.nodeType = "element" => n.namespaceURI = ns

\* C18: with every live element in the namespace N of root and no namespace
\* override in the description, every element the call creates is in N.
C18_NamespaceKept ==
    (/\ Returned
     /\ noOverride(jsonml)
     /\ uniform(prev, prev.namespaceURI)) =>
        \A n \in NodesOf(root) :
            (n.nodeType = "element" /\ n.id \notin IdSet(prev))
                => n.namespaceURI = prev.namespaceURI

\* C19 for one patch of description j, none of whose children is a Fragment,
\* against the matching live element b with at least one child, which became
\* a, and for the matching elements below it.
RECURSIVE inStep(_, _, _)
inStep(j, b, a) ==
    LET kids == kidsOf(j)
        n == Len(kids)
        m == Len(b.childNodes)
    IN (plain(j) /\ m > 0) =>
         /\ Len(a.childNodes) = n
         /\ \A k \in 1..Min(n, m) :
                IF matches(kids[k], b.childNodes[k])
                THEN /\ a.childNodes[k].id = b.childNodes[k].id
                     /\ isElement(kids[k])
                            => inStep(kids[k], b.childNodes[k], a.childNodes[k])
                ELSE /\ a.childNodes[k].id \notin IdSet(prev)
                     /\ matches(kids[k], a.childNodes[k])
                     /\ IdSet(b.childNodes[k]) \cap IdSet(root) = {}
         /\ \A k \in (m + 1)..n :
                /\ a.childNodes[k].id \notin IdSet(prev)
                /\ erased(a.childNodes[k])
                       = erased(createNode(kids[k], b.namespaceURI, 1).nodes[1])

\* C19: description child i is reconciled against the live node that stood
\* at index i before the call, whatever was replaced before it: a matching
\* live node stays at i, a mismatching one gives way to a new node at i, no
\* live sibling is skipped or met twice, and the description children past
\* the live length are appended in order.
C19_WalkInStep == Returned => inStep(Wrapped, prev, root)
C19_Witness ==
    /\ Returned
    /\ jsonml = Elem("div", <<Elem("span", <<>>), Str("b")>>)
    /\ Len(prev.childNodes) = 2
    /\ prev.childNodes[1].nodeName = "DIV"
    /\ Len(prev.childNodes[1].childNodes) = 3
    /\ prev.childNodes[1].childNodes[1].nodeType = "text"
    /\ prev.childNodes[1].childNodes[2].nodeType = "text"
    /\ Len(root.childNodes) = 1
    /\ Len(root.childNodes[1].childNodes) = 2
    /\ root.childNodes[1].childNodes[1].id \notin IdSet(prev)
    /\ root.childNodes[1].childNodes[2].id = prev.childNodes[1].childNodes[2].id

\* C20: a Comment description patched where the live node is a Delimiter
\* replaces it by a new comment node without the delimiter tag.
C20_DelimiterNotComment ==
    (/\ Returned
     /\ isComment(jsonml)
     /\ prev.childNodes # <<>>
     /\ IsJsonMLDelimiter(prev.childNodes[1])) =>
        /\ root.childNodes # <<>>
        /\ root.childNodes[1].nodeType = "comment"
        /\ ~IsJsonMLDelimiter(root.childNodes[1])
        /\ root.childNodes[1].id \notin IdSet(prev)

\* C21: rendering the same description again and again reaches a tree that
\* every further render leaves as it is (by kind, name, namespace, value and
\* Delimiter tag, recursively).
C21_Stabilises == <>[](erased(root) = erased(prev))

\* C22: every call of render that has been made returns: the loops over the
\* description's children, the trailing trim and the calls of patchElement
\* and patchDocumentFragment within each other all come to their end.
C22_Terminates == (pc = "render") ~> (pc = "idle")

\* C22 witness: a call is inside patchDocumentFragment, called from the loop
\* of a nested patchElement that has another description child to go; the
\* loop of patchDocumentFragment has appended a node to the walker's root
\* (the last child there was created in this call) and has advanced the
\* walker onto it.
C22_Witness ==
    /\ Len(stack) > 2
    /\ top.fn = "patchDocumentFragment"
    /\ top.at = "loop"
    /\ caller.fn = "patchElement"
    /\ caller.i < Length(caller.jsonml)
    /\ top.i > firstIndex(top.jsonml)
    /\ top.s.currentNode = Null
    /\ top.s.childNodes[Len(top.s.childNodes)].id > Len(idsOf(root))
    /\ top.s.treeWalker = top.s.childNodes[Len(top.s.childNodes)].id

====
